---- MODULE Spec2Model ----
(***************************************************************************)
(* A model of the chunk construction engine of src/JSON_to_chunks.py:     *)
(* JSONChunkProcessor with its hierarchy cache, global chunk counter,      *)
(* background builder, budget allocator, boundary-aware splitter and       *)
(* document loop, and of ChromaDBManager.add_chunks of                     *)
(* src/chunk_to_ChromaDB.py.  Strings are sequences of one-character       *)
(* strings and Python's 0-based indices are kept (content[i] is            *)
(* At(content, i)).                                                        *)
(***************************************************************************)
EXTENDS Integers, Sequences, FiniteSets, TLC

VARIABLES
    chunk_size,            \* self.chunk_size
    overlap_size,          \* self.overlap_size
    max_background_size,   \* self.max_background_size
    hierarchy_cache,       \* self.hierarchy_cache: title -> cached body
    global_chunk_counter,  \* self.global_chunk_counter
    pc,                    \* position of the processor: "idle", "entries", or of the splitter
    cur_file,              \* input_file of the process_json_file call in progress
    entry_index,           \* i of the loop over entries (0-based)
    all_chunks,            \* all_chunks of the process_json_file call in progress
    last_entry,            \* what the last create_chunks_from_entry call computed
    saved,                 \* output files written: sequence of [file, chunks]
    all_stats,             \* all_stats of process_all_json_files
    issued,                \* every chunk id generate_chunk_id has returned, in order
    files_done,            \* number of process_json_file calls started
    s_content,             \* split_content_with_overlap: content
    s_avail,               \* split_content_with_overlap: available_chars
    s_start,               \* split_content_with_overlap: start
    s_prev_start,          \* start at the previous loop iteration (-1 before the first)
    s_chunks,              \* split_content_with_overlap: chunks
    s_windows,             \* the windows <<start, end>> extracted at line 170, in order
    s_iters,               \* loop iterations executed
    collection,            \* ChromaDBManager: the ids stored in the collection
    db_ready,              \* ChromaDBManager: self.collection is set
    db_last,               \* what the last add_chunks call did
    db_prev,               \* what the add_chunks call before it did
    db_calls               \* add_chunks calls made

vars == <<chunk_size, overlap_size, max_background_size, hierarchy_cache,
          global_chunk_counter, pc, cur_file, entry_index, all_chunks, last_entry,
          saved, all_stats, issued, files_done,
          s_content, s_avail, s_start, s_prev_start, s_chunks, s_windows, s_iters,
          collection, db_ready, db_last, db_prev, db_calls>>

procVars == <<hierarchy_cache, global_chunk_counter, cur_file, entry_index,
              all_chunks, last_entry, saved, all_stats, issued, files_done>>

splitVars == <<s_content, s_avail, s_start, s_prev_start, s_chunks, s_windows, s_iters>>

dbVars == <<collection, db_ready, db_last, db_prev, db_calls>>

(***************************************************************************)
(* Strings                                                                 *)
(***************************************************************************)
Max(a, b) == IF a >= b THEN a ELSE b

Min(a, b) == IF a <= b THEN a ELSE b

MinOf(S) == CHOOSE x \in S : \A y \in S : x <= y

\* the largest element of S, as the smallest of the negated elements: TLC meets
\* the smallest element of a set first
MaxOf(S) == 0 - MinOf({0 - y : y \in S})

\* content[i], 0-based
At(s, i) == s[i + 1]

\* s[a:b] for 0 <= a, with Python's clamping of b
Slice(s, a, b) == SubSeq(s, a + 1, Min(b, Len(s)))

\* s[a:]
From(s, a) == SubSeq(s, a + 1, Len(s))

\* s[-n:] for n > 0
Tail_n(s, n) == IF n >= Len(s) THEN s ELSE SubSeq(s, Len(s) - n + 1, Len(s))

\* s[:n]
Prefix(s, n) == SubSeq(s, 1, Min(n, Len(s)))

Rep(c, n) == [i \in 1..n |-> c]

WhitespaceChars == {" ", "\n", "\t"}

isspace(c) == c \in WhitespaceChars

\* str.strip()
strip(s) ==
    LET keep == {i \in 1..Len(s) : ~isspace(s[i])}
    IN  IF keep = {} THEN <<>> ELSE SubSeq(s, MinOf(keep), MaxOf(keep))

startswith(s, p) == Len(s) >= Len(p) /\ SubSeq(s, 1, Len(p)) = p

endswith(s, p) == Len(s) >= Len(p) /\ SubSeq(s, Len(s) - Len(p) + 1, Len(s)) = p

\* p in s
contains(s, p) == \E i \in 0..(Len(s) - Len(p)) : SubSeq(s, i + 1, i + Len(p)) = p

RECURSIVE join(_, _)
\* sep.join(parts)
join(sep, parts) ==
    IF parts = <<>> THEN <<>>
    ELSE IF Len(parts) = 1 THEN parts[1]
    ELSE parts[1] \o sep \o join(sep, SubSeq(parts, 2, Len(parts)))

(***************************************************************************)
(* split_content_with_overlap                                              *)
(***************************************************************************)
SentenceWindow == 200

ParagraphWindow == 200

LineWindow == 100

WordWindow == 50

SentenceEnd == {".", "!", "?"}

\* range(end - 1, max(start, end - w), -1) as a set
SearchRange(start, end, w) == (Max(start, end - w) + 1)..(end - 1)

\* the first i the downward loop meets: the largest one
FirstHit(S, offset, default) == IF S = {} THEN default ELSE MaxOf(S) + offset

SentenceBreak(content, start, end) ==
    FirstHit({i \in SearchRange(start, end, SentenceWindow) :
                 /\ At(content, i) \in SentenceEnd
                 /\ (i + 1 >= Len(content) \/ isspace(At(content, i + 1)))},
             1, end)

ParagraphBreak(content, start, end) ==
    FirstHit({i \in SearchRange(start, end, ParagraphWindow) :
                 Slice(content, i, i + 2) = <<"\n", "\n">>},
             2, end)

LineBreakOff(content, start, end) == end

LineBreak(content, start, end) ==
    FirstHit({i \in SearchRange(start, end, LineWindow) : At(content, i) = "\n"},
             1, end)

WordBreakLate(content, start, end) ==
    FirstHit({i \in SearchRange(start, end, WordWindow) : isspace(At(content, i))},
             2, end)

WordBreak(content, start, end) ==
    FirstHit({i \in SearchRange(start, end, WordWindow) : isspace(At(content, i))},
             1, end)

\* lines 135-167: the break point for a tentative end < len(content)
BreakPoint(content, start, end) ==
    LET b1 == SentenceBreak(content, start, end)
        b2 == IF b1 = end THEN ParagraphBreak(content, start, end) ELSE b1
        b3 == IF b2 = end THEN LineBreak(content, start, end) ELSE b2
        b4 == IF b3 = end THEN WordBreak(content, start, end) ELSE b3
    IN  b4

\* lines 129-167: the end of the window that starts at start
WindowEnd(content, available_chars, start) ==
    LET end == start + available_chars
    IN  IF end < Len(content) THEN BreakPoint(content, start, end) ELSE end

NextStartUnguarded(start, end, overlap) == end - overlap

NextStartGap(start, end, overlap) == Max(start + 1, end - overlap + 1)

\* line 179
NextStart(start, end, overlap) == Max(start + 1, end - overlap)

AppendAlways(chunks, chunk) == Append(chunks, chunk)

\* lines 171-172
AppendNonEmpty(chunks, chunk) == IF chunk # <<>> THEN Append(chunks, chunk) ELSE chunks

RECURSIVE SplitLoop(_, _, _, _, _)
\* lines 127-180, from the loop test on
SplitLoop(content, available_chars, overlap, start, chunks) ==
    IF ~(start < Len(content)) THEN chunks
    ELSE LET end == WindowEnd(content, available_chars, start)
             out == AppendNonEmpty(chunks, strip(Slice(content, start, end)))
         IN  IF end >= Len(content) THEN out
             ELSE SplitLoop(content, available_chars, overlap,
                            NextStart(start, end, overlap), out)

split_content_with_overlap(content, available_chars, overlap) ==
    IF Len(content) <= available_chars THEN <<content>>
    ELSE SplitLoop(content, available_chars, overlap, 0, <<>>)

(***************************************************************************)
(* generate_chunk_id                                                       *)
(***************************************************************************)
DigitChars == <<"0", "1", "2", "3", "4", "5", "6", "7", "8", "9">>

Letters ==
    {"a", "b", "c", "d", "e", "f", "g", "h", "i", "j", "k", "l", "m",
     "n", "o", "p", "q", "r", "s", "t", "u", "v", "w", "x", "y", "z",
     "A", "B", "C", "D", "E", "F", "G", "H", "I", "J", "K", "L", "M",
     "N", "O", "P", "Q", "R", "S", "T", "U", "V", "W", "X", "Y", "Z"}

isalnum(c) == c \in Letters \/ \E d \in 1..10 : DigitChars[d] = c

RECURSIVE Digits(_)
\* str(n) for n >= 0
Digits(n) == IF n < 10 THEN <<DigitChars[n + 1]>> ELSE Digits(n \div 10) \o <<DigitChars[(n % 10) + 1]>>

CounterWidth == 6

\* f"{n:06d}"
Pad06(n) ==
    LET d == Digits(n)
    IN  IF Len(d) >= CounterWidth THEN d ELSE Rep("0", CounterWidth - Len(d)) \o d

\* os.path.basename
basename(path) ==
    LET slashes == {k \in 1..Len(path) : path[k] = "/"}
    IN  IF slashes = {} THEN path ELSE SubSeq(path, MaxOf(slashes) + 1, Len(path))

\* Path(name).stem
stem(name) ==
    LET dots == {k \in 1..Len(name) : name[k] = "."}
    IN  IF dots = {} THEN name
        ELSE IF MaxOf(dots) = 1 \/ MaxOf(dots) = Len(name) THEN name
        ELSE SubSeq(name, 1, MaxOf(dots) - 1)

TitleLimit == 30

\* lines 54-55
clean_title(entry_title) ==
    LET kept == SelectSeq(entry_title, LAMBDA c : isalnum(c) \/ c \in {" ", "-", "_"})
        stripped == strip(kept)
        under == [k \in 1..Len(stripped) |-> IF stripped[k] = " " THEN "_" ELSE stripped[k]]
    IN  Prefix(under, TitleLimit)

ChunkPrefix == <<"c", "h", "u", "n", "k", "_">>

\* line 57
FormatChunkId(counter, source_filename, entry_title, chunk_index) ==
    ChunkPrefix \o Pad06(counter) \o <<"_">> \o stem(source_filename) \o <<"_">>
        \o clean_title(entry_title) \o <<"_">> \o Digits(chunk_index)

CounterStuck(counter) == counter

\* line 50
IncrementCounter(counter) == counter + 1

\* lines 50-57: the counter after the call and the id returned
generate_chunk_id(counter, source_filename, entry_title, chunk_index) ==
    LET c == IncrementCounter(counter)
    IN  [counter |-> c, id |-> FormatChunkId(c, source_filename, entry_title, chunk_index)]

(***************************************************************************)
(* build_hierarchical_background                                           *)
(***************************************************************************)
OpenLabel == <<"[", "B", "A", "C", "K", "G", "R", "O", "U", "N", "D", "]", "\n">>

CloseLabel == <<"\n", "[", "/", "B", "A", "C", "K", "G", "R", "O", "U", "N", "D", "]">>

TruncMarker == <<"[", "T", "R", "U", "N", "C", "A", "T", "E", "D", "]", " ">>

ParagraphSep == <<"\n", "\n">>

EmptyCache == [t \in {} |-> <<>>]

CachePutTitle(cache, title, body) ==
    [t \in DOMAIN cache \cup {title} |-> IF t = title THEN title ELSE cache[t]]

\* line 86
CachePut(cache, title, body) ==
    [t \in DOMAIN cache \cup {title} |-> IF t = title THEN body ELSE cache[t]]

ScanEntriesBlank(title, all_entries) ==
    LET hits == {j \in 1..Len(all_entries) :
                    ~all_entries[j].has_metadata \/ all_entries[j].title = title}
    IN  IF hits = {} THEN [found |-> TRUE, raised |-> FALSE, body |-> <<>>]
        ELSE LET e == all_entries[MinOf(hits)]
             IN  IF ~e.has_metadata \/ ~e.has_content
                 THEN [found |-> FALSE, raised |-> TRUE, body |-> <<>>]
                 ELSE [found |-> TRUE, raised |-> FALSE, body |-> strip(e.content)]

\* lines 83-88: the scan for one ancestor title; an entry without 'metadata', or a
\* matching entry without 'content', raises KeyError
ScanEntries(title, all_entries) ==
    LET hits == {j \in 1..Len(all_entries) :
                    ~all_entries[j].has_metadata \/ all_entries[j].title = title}
    IN  IF hits = {} THEN [found |-> FALSE, raised |-> FALSE, body |-> <<>>]
        ELSE LET e == all_entries[MinOf(hits)]
             IN  IF ~e.has_metadata \/ ~e.has_content
                 THEN [found |-> FALSE, raised |-> TRUE, body |-> <<>>]
                 ELSE [found |-> TRUE, raised |-> FALSE, body |-> strip(e.content)]

RECURSIVE ResolveAncestors(_, _, _, _)
\* lines 76-88
ResolveAncestors(hierarchy, all_entries, cache, parts) ==
    IF hierarchy = <<>> THEN [raised |-> FALSE, cache |-> cache, parts |-> parts]
    ELSE LET title == Head(hierarchy)
         IN  IF title \in DOMAIN cache
             THEN ResolveAncestors(Tail(hierarchy), all_entries, cache,
                                   Append(parts, cache[title]))
             ELSE LET r == ScanEntries(title, all_entries)
                  IN  IF r.raised THEN [raised |-> TRUE, cache |-> cache, parts |-> parts]
                      ELSE IF r.found
                      THEN ResolveAncestors(Tail(hierarchy), all_entries,
                                            CachePut(cache, title, r.body),
                                            Append(parts, r.body))
                      ELSE ResolveAncestors(Tail(hierarchy), all_entries, cache, parts)

WrapOpenOnly(raw_background) == OpenLabel \o raw_background

\* line 106
Wrap(raw_background) == OpenLabel \o raw_background \o CloseLabel

LabelUncut(joined, max_bg) ==
    IF joined = <<>> THEN [background |-> <<>>, was_truncated |-> FALSE]
    ELSE [background |-> Wrap(joined), was_truncated |-> FALSE]

LabelHead(joined, max_bg) ==
    IF joined = <<>> THEN [background |-> <<>>, was_truncated |-> FALSE]
    ELSE IF Len(joined) > max_bg
    THEN [background |-> Wrap(TruncMarker \o Prefix(joined, Max(max_bg - Len(TruncMarker), 0))),
          was_truncated |-> TRUE]
    ELSE [background |-> Wrap(joined), was_truncated |-> FALSE]

\* lines 90-108
LabelBackground(joined, max_bg) ==
    IF joined = <<>> THEN [background |-> <<>>, was_truncated |-> FALSE]
    ELSE IF Len(joined) > max_bg
    THEN LET truncation_point == Len(joined) - max_bg + Len(TruncMarker)
         IN  [background |-> Wrap(TruncMarker \o From(joined, Min(truncation_point, Len(joined)))),
              was_truncated |-> TRUE]
    ELSE [background |-> Wrap(joined), was_truncated |-> FALSE]

\* lines 90-108 applied to the parts collected; joined is the text of line 91
BackgroundOf(r, joined, max_bg) ==
    IF r.raised
    THEN [raised |-> TRUE, cache |-> r.cache, joined |-> <<>>,
          background |-> <<>>, was_truncated |-> FALSE]
    ELSE [raised |-> FALSE, cache |-> r.cache, joined |-> joined] @@ LabelBackground(joined, max_bg)

JoinedParts(r, max_bg) == BackgroundOf(r, join(ParagraphSep, r.parts), max_bg)

\* lines 70-108
build_hierarchical_background(entry, all_entries, cache, max_bg) ==
    IF ~entry.has_metadata
    THEN [raised |-> TRUE, cache |-> cache, joined |-> <<>>,
          background |-> <<>>, was_truncated |-> FALSE]
    ELSE JoinedParts(ResolveAncestors(entry.hierarchy, all_entries, cache, <<>>), max_bg)

(***************************************************************************)
(* create_chunks_from_entry                                                *)
(***************************************************************************)
MinContentSize == 100

OpenLabelLen == 13

CloseLabelLen == 14

MarkerLen == 12

TruncatedOverhead == 30

LabelOverhead == 28

\* lines 215-229
ShrinkInner(background, inner_content, max_allowed_background) ==
    IF contains(inner_content, TruncMarker)
    THEN IF max_allowed_background - TruncatedOverhead > 0
         THEN Wrap(TruncMarker \o Tail_n(From(inner_content, MarkerLen),
                                         max_allowed_background - TruncatedOverhead))
         ELSE background
    ELSE IF max_allowed_background - LabelOverhead > 0
         THEN Wrap(TruncMarker \o Tail_n(inner_content, max_allowed_background - LabelOverhead))
         ELSE <<>>

\* lines 213-229: the background after the shrink step, for max_allowed_background > 0
ShrinkBackground(background, max_allowed_background) ==
    IF startswith(background, OpenLabel) /\ endswith(background, CloseLabel)
    THEN ShrinkInner(background,
                     Slice(background, OpenLabelLen, Len(background) - CloseLabelLen),
                     max_allowed_background)
    ELSE background

ClampNone(available_chars) == available_chars

\* line 236
ClampToFloor(available_chars) == Max(available_chars, MinContentSize)

\* lines 235-236 after the shrink step
Budget(background, was_truncated, size) ==
    [background |-> background,
     background_length |-> Len(background),
     was_truncated |-> was_truncated,
     available_chars |-> ClampToFloor(size - Len(background))]

AllocateUnchecked(background, was_truncated, size) ==
    [background |-> background,
     background_length |-> Len(background),
     was_truncated |-> was_truncated,
     available_chars |-> size - Len(background)]

AllocateStaleLength(background, was_truncated, size) ==
    IF size - Len(background) < MinContentSize
    THEN IF Len(background) > 0
         THEN IF size - MinContentSize > 0
              THEN [Budget(ShrinkBackground(background, size - MinContentSize), TRUE, size)
                       EXCEPT !.background_length = Len(background)]
              ELSE [Budget(<<>>, was_truncated, size) EXCEPT !.background_length = Len(background)]
         ELSE Budget(background, was_truncated, size)
    ELSE [background |-> background,
          background_length |-> Len(background),
          was_truncated |-> was_truncated,
          available_chars |-> size - Len(background)]

\* lines 198-236: the background kept and the budget left for the content
Allocate(background, was_truncated, size) ==
    IF size - Len(background) < MinContentSize
    THEN IF Len(background) > 0
         THEN IF size - MinContentSize > 0
              THEN Budget(ShrinkBackground(background, size - MinContentSize), TRUE, size)
              ELSE Budget(<<>>, was_truncated, size)
         ELSE Budget(background, was_truncated, size)
    ELSE [background |-> background,
          background_length |-> Len(background),
          was_truncated |-> was_truncated,
          available_chars |-> size - Len(background)]

MakeChunkGlued(background, background_length, content_chunk, chunk_id, source_filename, full_path) ==
    [content |-> background \o content_chunk,
     metadata |-> [chunk_id |-> chunk_id,
                   source_file |-> source_filename,
                   full_path |-> full_path,
                   chunk_size |-> Len(background \o content_chunk),
                   background_size |-> background_length,
                   content_size |-> Len(content_chunk)]]

\* lines 249-271: one chunk
MakeChunk(background, background_length, content_chunk, chunk_id, source_filename, full_path) ==
    LET full_content == IF background # <<>>
                        THEN background \o ParagraphSep \o content_chunk
                        ELSE content_chunk
    IN  [content |-> full_content,
         metadata |-> [chunk_id |-> chunk_id,
                       source_file |-> source_filename,
                       full_path |-> full_path,
                       chunk_size |-> Len(full_content),
                       background_size |-> background_length,
                       content_size |-> Len(content_chunk)]]

\* lines 249-273: the chunk for segment i (0-based) under the id just generated
ChunkWithId(g, content_chunk, al, entry, source_filename) ==
    MakeChunk(al.background, al.background_length, content_chunk, g.id,
              source_filename, entry.full_path)

RECURSIVE AssembleChunks(_, _, _, _, _, _, _)
\* lines 248-273: the loop over the segments from index i (0-based) on
AssembleChunks(content_chunks, i, counter, chunks, al, entry, source_filename) ==
    IF i >= Len(content_chunks) THEN [counter |-> counter, chunks |-> chunks]
    ELSE AssembleChunks(content_chunks, i + 1, IncrementCounter(counter),
                        Append(chunks,
                               ChunkWithId(generate_chunk_id(counter, source_filename,
                                                             entry.title, i),
                                           content_chunks[i + 1], al, entry,
                                           source_filename)),
                        al, entry, source_filename)

\* line 275 and the processor's fields after the call
EntryResult(b, al, content_chunks, a, entry) ==
    [raised |-> FALSE, cache |-> b.cache, counter |-> a.counter,
     chunks |-> a.chunks,
     title |-> entry.title,
     content |-> entry.content,
     joined |-> b.joined,
     built_background |-> b.background,
     built_truncated |-> b.was_truncated,
     background |-> al.background,
     background_length |-> al.background_length,
     was_truncated |-> al.was_truncated,
     available_chars |-> al.available_chars,
     content_chunks |-> content_chunks]

\* lines 242-275
AssembleEntry(b, al, content_chunks, entry, source_filename, counter) ==
    EntryResult(b, al, content_chunks,
                AssembleChunks(content_chunks, 0, counter, <<>>, al, entry, source_filename),
                entry)

\* lines 239-275
SplitEntry(b, al, entry, source_filename, counter, overlap) ==
    AssembleEntry(b, al, split_content_with_overlap(entry.content, al.available_chars, overlap),
                  entry, source_filename, counter)

\* lines 198-275
AllocateEntry(b, entry, source_filename, counter, size, overlap) ==
    IF b.raised
    THEN [raised |-> TRUE, cache |-> b.cache, counter |-> counter, chunks |-> <<>>]
    ELSE SplitEntry(b, Allocate(b.background, b.was_truncated, size),
                    entry, source_filename, counter, overlap)

\* lines 197-275: what the call returns and leaves in the processor
create_chunks_from_entry(entry, all_entries, source_filename, cache, counter, size, overlap, max_bg) ==
    AllocateEntry(build_hierarchical_background(entry, all_entries, cache, max_bg),
                  entry, source_filename, counter, size, overlap)

(***************************************************************************)
(* The documents and configurations the processor is run on                *)
(***************************************************************************)
MaxFiles == 3

\* n characters of prose in letter c: words, sentences and a few line breaks
Text(c, n) ==
    [k \in 1..n |->
        IF k % 37 = 0 THEN "."
        ELSE IF k % 37 = 1 /\ k > 1 THEN " "
        ELSE IF k % 53 = 0 THEN "\n"
        ELSE IF k % 9 = 0 THEN " "
        ELSE c]

TIntro == <<"I", "n", "t", "r", "o">>

TMethods == <<"M", "e", "t", "h", "o", "d", "s">>

TGhost == <<"G", "h", "o", "s", "t">>

TPart == <<"2", ".", " ", "A", "/", "B", " ", "t", "e", "s", "t">>

TNotes == <<"N", "o", "t", "e", "s">>

TSub == <<"S", "u", "b">>

TLog == <<"L", "o", "g">>

TGap == <<"G", "a", "p">>

PathSep == <<" ", ">", " ">>

Entry(title, hierarchy, content) ==
    [has_metadata |-> TRUE, has_content |-> TRUE, title |-> title,
     hierarchy |-> hierarchy, full_path |-> join(PathSep, Append(hierarchy, title)),
     content |-> content]

\* an entry without a 'content' key
NoContent(title, hierarchy) ==
    [has_metadata |-> TRUE, has_content |-> FALSE, title |-> title,
     hierarchy |-> hierarchy, full_path |-> join(PathSep, Append(hierarchy, title)),
     content |-> <<>>]

\* an entry without a 'metadata' key
NoMetadata(content) ==
    [has_metadata |-> FALSE, has_content |-> TRUE, title |-> <<>>,
     hierarchy |-> <<>>, full_path |-> <<>>, content |-> content]

Library ==
    << [path |-> <<"d", "o", "c", "s", "/", "a", ".", "j", "s", "o", "n">>,
        entries |-> << Entry(TIntro, <<>>, <<" ">> \o Text("a", 40) \o <<"\n">>),
                       Entry(TMethods, <<TIntro>>, Text("m", 230)),
                       Entry(TIntro, <<TIntro, TGhost, TMethods>>, Text("x", 120)),
                       Entry(TLog, <<>>, <<"t", "t", "t", " ">> \o TruncMarker \o Text("t", 30)),
                       Entry(TSub, <<TLog>>, Text("u", 20)),
                       Entry(TGap, <<>>, Text("v", 30) \o Rep(" ", 220) \o Text("w", 30)) >>],
       [path |-> <<"m", "o", "r", "e", "/", "a", ".", "j", "s", "o", "n">>,
        entries |-> << Entry(TIntro, <<>>, Text("b", 60)),
                       Entry(TPart, <<TGhost, TIntro>>, Text("n", 130)),
                       Entry(TMethods, <<TIntro>>, Text("o", 20)),
                       Entry(TNotes, <<>>, <<" ", "\n", " ">>),
                       Entry(TSub, <<TNotes>>, Text("p", 103)),
                       Entry(TSub, <<TMethods>>, Rep("q", 103)) >>],
       [path |-> <<"t", "m", "p", "/", "a", ".", "j", "s", "o", "n">>,
        entries |-> << Entry(TIntro, <<>>, Text("c", 110)),
                       Entry(TMethods, <<TIntro>>, Text("d", 20)),
                       NoContent(TPart, <<TIntro>>),
                       Entry(TGhost, <<>>, Text("e", 20)) >>],
       [path |-> <<"d", "o", "c", "s", "/", "d", ".", "v", "2", ".", "j", "s", "o", "n">>,
        entries |-> << Entry(TMethods, <<>>, Text("h", 30)),
                       Entry(TSub, <<TMethods>>, Text("k", 20)),
                       Entry(TPart, <<TMethods, TGhost>>, Text("f", 30)),
                       NoMetadata(Text("g", 30)) >>] >>

ChunkSizes == {60, 120, 150, 5000}

OverlapSizes == {0, 20, 200}

\* the max_background_size argument; 0 stands for None
MaxBackgroundArgs == {0, 10, 500}

\* <<chunk_size, overlap_size, max_background_size argument>>: an overlap at most
\* half the chunk size, so that a 230-character entry yields a handful of chunks
Configs == {c \in ChunkSizes \X OverlapSizes \X MaxBackgroundArgs : 2 * c[2] <= c[1]}

\* line 34: max_background_size or int(chunk_size * 0.4)
DefaultBackground(size, arg) == IF arg # 0 THEN arg ELSE (size * 4) \div 10

(***************************************************************************)
(* The processor: process_json_file under process_all_json_files          *)
(***************************************************************************)
\* no add_chunks call was made
NoCall == [called |-> FALSE]

DbIdle ==
    /\ collection = {}
    /\ db_ready = FALSE
    /\ db_last = NoCall
    /\ db_prev = NoCall
    /\ db_calls = 0

SplitIdle ==
    /\ s_content = <<>>
    /\ s_avail = 0
    /\ s_start = 0
    /\ s_prev_start = -1
    /\ s_chunks = <<>>
    /\ s_windows = <<>>
    /\ s_iters = 0

\* lines 32-36
Init ==
    /\ \E c \in Configs :
          /\ chunk_size = c[1]
          /\ overlap_size = c[2]
          /\ max_background_size = DefaultBackground(c[1], c[3])
    /\ hierarchy_cache = EmptyCache
    /\ global_chunk_counter = 0
    /\ pc = "idle"
    /\ cur_file = 0
    /\ entry_index = 0
    /\ all_chunks = <<>>
    /\ last_entry = [raised |-> TRUE]
    /\ saved = <<>>
    /\ all_stats = <<>>
    /\ issued = <<>>
    /\ files_done = 0
    /\ SplitIdle
    /\ DbIdle

\* line 312 for entry i (0-based) of doc
ResultFor(doc, i) ==
    create_chunks_from_entry(doc.entries[i + 1], doc.entries, basename(doc.path),
                             hierarchy_cache, global_chunk_counter, chunk_size,
                             overlap_size, max_background_size)

CacheKept(cache) == cache

\* line 295
CacheReset(cache) == EmptyCache

StartFileResetCounter(f) ==
    /\ pc = "idle"
    /\ files_done < MaxFiles
    /\ cur_file' = f
    /\ files_done' = files_done + 1
    /\ hierarchy_cache' = CacheReset(hierarchy_cache)
    /\ global_chunk_counter' = 0
    /\ all_chunks' = <<>>
    /\ entry_index' = 0
    /\ pc' = "entries"
    /\ UNCHANGED <<chunk_size, overlap_size, max_background_size, last_entry,
                   saved, all_stats, issued, splitVars, dbVars>>

\* lines 370-376 and 288-303: the next file of the run enters process_json_file
StartFile(f) ==
    /\ pc = "idle"
    /\ files_done < MaxFiles
    /\ cur_file' = f
    /\ files_done' = files_done + 1
    /\ hierarchy_cache' = CacheReset(hierarchy_cache)
    /\ all_chunks' = <<>>
    /\ entry_index' = 0
    /\ pc' = "entries"
    /\ UNCHANGED <<chunk_size, overlap_size, max_background_size, global_chunk_counter,
                   last_entry, saved, all_stats, issued, splitVars, dbVars>>

TakeResultPrepend(r) ==
    /\ ~r.raised
    /\ hierarchy_cache' = r.cache
    /\ global_chunk_counter' = r.counter
    /\ all_chunks' = r.chunks \o all_chunks
    /\ issued' = issued \o [k \in 1..Len(r.chunks) |->
                               [id |-> r.chunks[k].metadata.chunk_id,
                                file |-> cur_file, entry |-> entry_index, index |-> k - 1]]
    /\ last_entry' = r

\* lines 312-314: the entry's chunks join the document's
TakeResult(r) ==
    /\ ~r.raised
    /\ hierarchy_cache' = r.cache
    /\ global_chunk_counter' = r.counter
    /\ all_chunks' = all_chunks \o r.chunks
    /\ issued' = issued \o [k \in 1..Len(r.chunks) |->
                               [id |-> r.chunks[k].metadata.chunk_id,
                                file |-> cur_file, entry |-> entry_index, index |-> k - 1]]
    /\ last_entry' = r

ProcessEntryOf(doc) ==
    /\ entry_index < Len(doc.entries)
    /\ doc.entries[entry_index + 1].has_content
    /\ TakeResult(ResultFor(doc, entry_index))

\* lines 305-314: one entry of the loop, processed without an exception
ProcessEntry ==
    /\ pc = "entries"
    /\ ProcessEntryOf(Library[cur_file])
    /\ entry_index' = entry_index + 1
    /\ UNCHANGED <<chunk_size, overlap_size, max_background_size, pc, cur_file,
                   saved, all_stats, files_done, splitVars, dbVars>>

RaisedIn(r) == r.raised /\ hierarchy_cache' = r.cache

FailFileRecordsStats ==
    /\ pc = "entries"
    /\ entry_index < Len(Library[cur_file].entries)
    /\ IF Library[cur_file].entries[entry_index + 1].has_content
       THEN RaisedIn(ResultFor(Library[cur_file], entry_index))
       ELSE hierarchy_cache' = hierarchy_cache
    /\ last_entry' = [raised |-> TRUE]
    /\ all_chunks' = <<>>
    /\ all_stats' = Append(all_stats, [input_file |-> Library[cur_file].path,
                                       original_entries |-> Len(Library[cur_file].entries),
                                       total_chunks |-> Len(all_chunks)])
    /\ pc' = "idle"
    /\ UNCHANGED <<chunk_size, overlap_size, max_background_size, global_chunk_counter,
                   cur_file, entry_index, saved, issued, files_done, splitVars, dbVars>>

FailFileOf(doc) ==
    /\ entry_index < Len(doc.entries)
    /\ IF doc.entries[entry_index + 1].has_content
       THEN RaisedIn(ResultFor(doc, entry_index))
       ELSE hierarchy_cache' = hierarchy_cache

\* lines 309, 70, 84, 85 raise KeyError; lines 378-380 catch it and go on
FailFile ==
    /\ pc = "entries"
    /\ FailFileOf(Library[cur_file])
    /\ last_entry' = [raised |-> TRUE]
    /\ all_chunks' = <<>>
    /\ pc' = "idle"
    /\ UNCHANGED <<chunk_size, overlap_size, max_background_size, global_chunk_counter,
                   cur_file, entry_index, saved, all_stats, issued, files_done, splitVars, dbVars>>

FinishFileUnordered(doc) ==
    /\ entry_index = Len(doc.entries)
    /\ \E chunks \in {all_chunks, [k \in 1..Len(all_chunks) |-> all_chunks[Len(all_chunks) - k + 1]]} :
          saved' = Append(saved, [output_file |-> stem(basename(doc.path)),
                                  file |-> cur_file, chunks |-> chunks])
    /\ all_stats' = Append(all_stats, [input_file |-> doc.path,
                                       original_entries |-> Len(doc.entries),
                                       total_chunks |-> Len(all_chunks)])

FinishFileOf(doc) ==
    /\ entry_index = Len(doc.entries)
    /\ saved' = Append(saved, [output_file |-> stem(basename(doc.path)),
                               file |-> cur_file, chunks |-> all_chunks])
    /\ all_stats' = Append(all_stats, [input_file |-> doc.path,
                                       original_entries |-> Len(doc.entries),
                                       total_chunks |-> Len(all_chunks)])

\* lines 316-340 and 377: the chunks are written and the statistics recorded
FinishFile ==
    /\ pc = "entries"
    /\ FinishFileOf(Library[cur_file])
    /\ all_chunks' = <<>>
    /\ pc' = "idle"
    /\ UNCHANGED <<chunk_size, overlap_size, max_background_size, hierarchy_cache,
                   global_chunk_counter, cur_file, entry_index, last_entry, issued,
                   files_done, splitVars, dbVars>>

Next ==
    \/ \E f \in 1..Len(Library) : StartFile(f)
    \/ ProcessEntry
    \/ FailFile
    \/ FinishFile

Spec == Init /\ [][Next]_vars

(***************************************************************************)
(* The splitter run step by step: one action per loop iteration            *)
(***************************************************************************)
MaxLen == 5

MaxAvail == 3

MaxOverlap == 3

LongLen == 230

LongAvail == 210

Alphabet == {"a", ".", " ", "\n"}

ShortContents == UNION {[1..n -> Alphabet] : n \in 0..MaxLen}

\* where a boundary is planted in a long content: at both edges of each look-back window
LongPositions ==
    {LongAvail - SentenceWindow, LongAvail - SentenceWindow + 1,
     LongAvail - LineWindow, LongAvail - LineWindow + 1,
     LongAvail - WordWindow, LongAvail - WordWindow + 1,
     LongAvail - 2, LongAvail - 1}

Boundaries == {<<".", " ">>, <<"\n", "\n">>, <<"\n", "a">>, <<" ", "a">>, <<"a", "a">>}

\* LongLen characters of prose with boundary b1 planted at p1 and b2 at p2 (0-based)
LongContent(p1, b1, p2, b2) ==
    [k \in 1..LongLen |->
        IF k - 1 = p2 THEN b2[1] ELSE IF k - 1 = p2 + 1 THEN b2[2]
        ELSE IF k - 1 = p1 THEN b1[1] ELSE IF k - 1 = p1 + 1 THEN b1[2]
        ELSE "a"]

LongContents ==
    {LongContent(p1, b1, p2, b2) : p1 \in LongPositions, b1 \in Boundaries,
                                   p2 \in {LongAvail - 2, LongAvail - 1}, b2 \in Boundaries}

\* the run of one long entry: hierarchy [], chunk_size 5000, overlap_size 200 and a
\* content of 6000 characters that ends "done. Next part starts here."
Scenario == [chunk_size |-> 5000, overlap_size |-> 200, length |-> 6000, newline_at |-> 4950]

ScenarioDone == <<"d", "o", "n", "e", ".">>

ScenarioTail ==
    <<" ", "N", "e", "x", "t", " ", "p", "a", "r", "t", " ", "s", "t", "a", "r", "t", "s",
      " ", "h", "e", "r", "e", ".">>

\* the first sentence up to "done.": one unbroken run, words, or words with a newline
ScenarioFill(kind, k) ==
    IF kind = "solid" THEN "w"
    ELSE IF kind = "lines" /\ k = Scenario.newline_at THEN "\n"
    ELSE IF k % 7 = 0 THEN " "
    ELSE "w"

ScenarioContent(kind) ==
    [k \in 1..(Scenario.length - Len(ScenarioTail) - Len(ScenarioDone)) |-> ScenarioFill(kind, k)]
        \o ScenarioDone \o ScenarioTail

ScenarioContents == {ScenarioContent(kind) : kind \in {"solid", "words", "lines"}}

ProcIdle ==
    /\ chunk_size = 0
    /\ max_background_size = 0
    /\ hierarchy_cache = EmptyCache
    /\ global_chunk_counter = 0
    /\ cur_file = 0
    /\ entry_index = 0
    /\ all_chunks = <<>>
    /\ last_entry = [raised |-> TRUE]
    /\ saved = <<>>
    /\ all_stats = <<>>
    /\ issued = <<>>
    /\ files_done = 0

SplitInit ==
    /\ ProcIdle
    /\ DbIdle
    /\ pc = "s_call"
    /\ \/ s_content \in ShortContents /\ s_avail \in 1..MaxAvail /\ overlap_size \in 0..MaxOverlap
       \/ s_content \in LongContents /\ s_avail = LongAvail /\ overlap_size \in 0..MaxOverlap
       \/ /\ s_content \in ScenarioContents
          /\ s_avail = Allocate(<<>>, FALSE, Scenario.chunk_size).available_chars
          /\ overlap_size = Scenario.overlap_size
    /\ s_start = 0
    /\ s_prev_start = -1
    /\ s_chunks = <<>>
    /\ s_windows = <<>>
    /\ s_iters = 0

SplitShortTrimmed ==
    /\ pc = "s_call"
    /\ Len(s_content) <= s_avail
    /\ s_chunks' = <<strip(s_content)>>
    /\ pc' = "s_done"
    /\ UNCHANGED <<chunk_size, overlap_size, max_background_size, procVars, dbVars,
                   s_content, s_avail, s_start, s_prev_start, s_windows, s_iters>>

\* lines 121-122
SplitShort ==
    /\ pc = "s_call"
    /\ Len(s_content) <= s_avail
    /\ s_chunks' = <<s_content>>
    /\ pc' = "s_done"
    /\ UNCHANGED <<chunk_size, overlap_size, max_background_size, procVars, dbVars,
                   s_content, s_avail, s_start, s_prev_start, s_windows, s_iters>>

\* lines 124-125
SplitEnter ==
    /\ pc = "s_call"
    /\ Len(s_content) > s_avail
    /\ s_chunks' = <<>>
    /\ s_start' = 0
    /\ pc' = "s_loop"
    /\ UNCHANGED <<chunk_size, overlap_size, max_background_size, procVars, dbVars,
                   s_content, s_avail, s_prev_start, s_windows, s_iters>>

\* lines 127-180: the loop test and one iteration
SplitIterate ==
    /\ pc = "s_loop"
    /\ IF ~(s_start < Len(s_content))
       THEN /\ pc' = "s_done"
            /\ UNCHANGED <<s_start, s_prev_start, s_chunks, s_windows, s_iters>>
       ELSE LET end == WindowEnd(s_content, s_avail, s_start)
            IN  /\ s_chunks' = AppendNonEmpty(s_chunks, strip(Slice(s_content, s_start, end)))
                /\ s_windows' = Append(s_windows, <<s_start, end>>)
                /\ s_iters' = s_iters + 1
                /\ s_prev_start' = s_start
                /\ IF end >= Len(s_content)
                   THEN pc' = "s_done" /\ s_start' = s_start
                   ELSE pc' = "s_loop" /\ s_start' = NextStart(s_start, end, overlap_size)
    /\ UNCHANGED <<chunk_size, overlap_size, max_background_size, procVars, dbVars,
                   s_content, s_avail>>

SplitNext == SplitShort \/ SplitEnter \/ SplitIterate

SplitSpec == SplitInit /\ [][SplitNext]_vars

\* the step-by-step run returns what the function returns
SplitStepsAgree ==
    pc = "s_done" => s_chunks = split_content_with_overlap(s_content, s_avail, overlap_size)

(***************************************************************************)
(* ChromaDBManager.add_chunks (src/chunk_to_ChromaDB.py)                   *)
(***************************************************************************)
MaxBatch == 2

MaxCalls == 2

\* f"chunk_{n}"
DefaultChunkId(n) == ChunkPrefix \o Digits(n)

\* metadata.get('chunk_id', f"chunk_{n}") for chunk.get('metadata', {})
ChunkIdOr(chunk, n) == IF chunk.has_id THEN chunk.chunk_id ELSE DefaultChunkId(n)

\* lines 121-129: the ids read from the collection; a failing read is logged and
\* answered with the empty set
get_existing_chunk_ids(stored, get_raises) == IF get_raises THEN {} ELSE stored

RECURSIVE FilterLoop(_, _, _)
\* lines 144-149
FilterLoop(chunks, existing_ids, new_chunks) ==
    IF chunks = <<>> THEN new_chunks
    ELSE FilterLoop(Tail(chunks), existing_ids,
                    IF ChunkIdOr(Head(chunks), Len(new_chunks)) \notin existing_ids
                    THEN Append(new_chunks, Head(chunks))
                    ELSE new_chunks)

\* lines 141-152
filter_new_chunks(chunks, existing_ids) == FilterLoop(chunks, existing_ids, <<>>)

\* lines 167-172
ChunksToAdd(chunks, force_recompute, stored, get_raises) ==
    IF ~force_recompute
    THEN filter_new_chunks(chunks, get_existing_chunk_ids(stored, get_raises))
    ELSE chunks

\* lines 182-189: the ids list built for collection.add
IdsOf(chunks_to_add) == [k \in 1..Len(chunks_to_add) |-> ChunkIdOr(chunks_to_add[k], k - 1)]

\* collection.add(ids=ids): the ids join the collection, or the call raises (it
\* always does for a list that holds an id twice) and stores nothing
CollectionAdd(stored, ids, add_raises) ==
    IF add_raises \/ Cardinality({ids[k] : k \in 1..Len(ids)}) # Len(ids)
    THEN [raised |-> TRUE, ids |-> stored]
    ELSE [raised |-> FALSE, ids |-> stored \cup {ids[k] : k \in 1..Len(ids)}]

\* what one add_chunks call did
CallRecord(chunks, force_recompute, stored, get_failed, handed, added) ==
    [called |-> TRUE, chunks |-> chunks, force_recompute |-> force_recompute,
     before |-> stored, get_failed |-> get_failed, handed |-> handed,
     raised |-> added.raised, after |-> added.ids]

\* lines 174-201 for the ids of chunks_to_add
AddIds(chunks, force_recompute, stored, get_failed, ids, add_raises) ==
    IF ids = <<>>
    THEN CallRecord(chunks, force_recompute, stored, get_failed, <<>>,
                    [raised |-> FALSE, ids |-> stored])
    ELSE CallRecord(chunks, force_recompute, stored, get_failed, ids,
                    CollectionAdd(stored, ids, add_raises))

\* lines 163-201
add_chunks(chunks, force_recompute, ready, stored, get_raises, add_raises) ==
    IF ~ready
    THEN CallRecord(chunks, force_recompute, stored, FALSE, <<>>,
                    [raised |-> TRUE, ids |-> stored])
    ELSE AddIds(chunks, force_recompute, stored, get_raises /\ ~force_recompute,
                IdsOf(ChunksToAdd(chunks, force_recompute, stored, get_raises)),
                add_raises)

\* a chunk dictionary as add_chunks reads it
DbChunk(chunk_id, content) == [has_id |-> TRUE, chunk_id |-> chunk_id, content |-> content]

\* a chunk whose metadata has no 'chunk_id'
DbChunkNoId(content) == [has_id |-> FALSE, chunk_id |-> <<>>, content |-> content]

DbChunks ==
    {DbChunk(FormatChunkId(1, basename(Library[1].path), TIntro, 0), "x"),
     DbChunk(DefaultChunkId(1), "y"),
     DbChunkNoId("a"),
     DbChunkNoId("b")}

Batches == UNION {[1..n -> DbChunks] : n \in 0..MaxBatch}

DbInit ==
    /\ ProcIdle
    /\ SplitIdle
    /\ overlap_size = 0
    /\ pc = "db"
    /\ collection \in SUBSET {DefaultChunkId(0), DefaultChunkId(1)}
    /\ db_ready = FALSE
    /\ db_last = NoCall
    /\ db_prev = NoCall
    /\ db_calls = 0

\* lines 88-110: the collection is retrieved or created
InitializeDb ==
    /\ pc = "db"
    /\ ~db_ready
    /\ db_ready' = TRUE
    /\ UNCHANGED <<chunk_size, overlap_size, max_background_size, pc, procVars, splitVars,
                   collection, db_last, db_prev, db_calls>>

AddChunksDone(r) == db_last' = r /\ collection' = r.after

\* lines 154-201: one call, the reads and writes of the collection succeeding or raising
AddChunks(chunks, force_recompute) ==
    /\ pc = "db"
    /\ db_calls < MaxCalls
    /\ \E get_raises, add_raises \in BOOLEAN :
          AddChunksDone(add_chunks(chunks, force_recompute, db_ready, collection,
                                   get_raises, add_raises))
    /\ db_prev' = db_last
    /\ db_calls' = db_calls + 1
    /\ UNCHANGED <<chunk_size, overlap_size, max_background_size, pc, procVars, splitVars,
                   db_ready>>

\* lines 203-210
AddChunksIfMissing(chunks) == AddChunks(chunks, FALSE)

DbNext ==
    \/ InitializeDb
    \/ \E chunks \in Batches : AddChunksIfMissing(chunks)
    \/ \E chunks \in Batches : \E force_recompute \in BOOLEAN : AddChunks(chunks, force_recompute)

DbSpec == DbInit /\ [][DbNext]_vars

(***************************************************************************)
(* Properties of the processor (specification Spec)                        *)
(***************************************************************************)
\* the part of a chunk id after "chunk_" and the six-digit counter
ReadablePart(id) == From(id, Len(ChunkPrefix) + CounterWidth)

\* files whose process_json_file call raised
FailedFiles == {issued[k].file : k \in 1..Len(issued)} \ ({saved[n].file : n \in 1..Len(saved)}
                                                          \cup (IF pc = "entries" THEN {cur_file} ELSE {}))

\* C1: no two chunk ids generated by one processor are equal, whatever documents
\* were processed (shared stems and titles, a file processed twice, failed files).
C1_UniqueChunkIds ==
    \A i, j \in 1..Len(issued) : i # j => issued[i].id # issued[j].id

\* C1 witness: two ids of different files agree in everything but the counter, and
\* a file has failed after consuming ids.
C1_Witness ==
    /\ \E i, j \in 1..Len(issued) :
          /\ i < j
          /\ issued[i].file # issued[j].file
          /\ ReadablePart(issued[i].id) = ReadablePart(issued[j].id)
    /\ \E i, j \in 1..Len(issued) :
          /\ i < j
          /\ issued[i].file = issued[j].file
          /\ issued[i].entry = issued[j].entry
          /\ issued[i].index = issued[j].index
    /\ FailedFiles # {}

\* C2: the counter equals the number of generate_chunk_id calls made so far (it
\* starts at 0, each call adds one, nothing else changes it), and the k-th id
\* generated carries the counter value k.
C2_CounterCountsIds ==
    /\ global_chunk_counter = Len(issued)
    /\ \A k \in 1..Len(issued) :
          startswith(issued[k].id, ChunkPrefix \o Pad06(k) \o <<"_">>)

\* C2 witness: a file failed after consuming counter values, a later file was
\* started (cache reset) and has generated further ids.
C2_Witness ==
    \E k \in 1..Len(issued) :
        /\ issued[k].file \in FailedFiles
        /\ k < Len(issued)
        /\ issued[Len(issued)].file # issued[k].file

\* the trimmed body of the first entry of doc titled title
FirstBody(doc, title) ==
    strip(doc.entries[MinOf({j \in 1..Len(doc.entries) :
                               doc.entries[j].has_metadata /\ doc.entries[j].title = title})].content)

DocTitles(doc) == {doc.entries[j].title : j \in {n \in 1..Len(doc.entries) : doc.entries[n].has_metadata}}

LowerCase(text) == {text[k] : k \in 1..Len(text)} \cap
    {"a", "b", "c", "d", "e", "f", "g", "h", "i", "j", "k", "l", "m",
     "n", "o", "p", "q", "r", "s", "t", "u", "v", "w", "x", "y", "z"}

\* the letters of the bodies of doc (each document of the library writes its
\* bodies in letters no other document uses)
BodyLetters(doc) ==
    UNION {LowerCase(doc.entries[j].content) : j \in 1..Len(doc.entries)}

\* C3: under process_json_file the cache is empty when the first entry of a
\* document is processed, holds only titles of the current document (each with
\* the body of that document's entry), and an entry's background holds no body
\* text of another document.
C3_CachePerDocument ==
    /\ (pc = "entries" /\ entry_index = 0) => hierarchy_cache = EmptyCache
    /\ cur_file # 0 =>
          /\ DOMAIN hierarchy_cache \subseteq DocTitles(Library[cur_file])
          /\ \A t \in DOMAIN hierarchy_cache :
                hierarchy_cache[t] = FirstBody(Library[cur_file], t)
    /\ (pc = "entries" /\ entry_index > 0 /\ ~last_entry.raised) =>
          LowerCase(last_entry.background) \subseteq BodyLetters(Library[cur_file])

\* C3 witness: a second document resolves the ancestor title that an earlier,
\* different document had cached, and its entry carries a background.
C3_Witness ==
    /\ pc = "entries"
    /\ entry_index > 0
    /\ ~last_entry.raised
    /\ last_entry.background # <<>>
    /\ TIntro \in DOMAIN hierarchy_cache
    /\ \E n \in 1..Len(saved) :
          /\ saved[n].file # cur_file
          /\ \E k \in 1..Len(saved[n].chunks) : saved[n].chunks[k].metadata.background_size > 0

\* C9 as stated: every emitted chunk's segment has at least 100 characters unless
\* the entry's whole content is shorter than 100.
C9_Original ==
    ~last_entry.raised =>
        \A k \in 1..Len(last_entry.chunks) :
            \/ last_entry.chunks[k].metadata.content_size >= MinContentSize
            \/ Len(last_entry.content) < MinContentSize

\* C9 amended: the floor of 100 bounds the budget the entry is cut under, not each
\* segment.  An entry that fits the budget yields one chunk whose segment is the
\* whole content; a longer entry yields segments that are non-empty and may be
\* shorter than 100.
C9_FloorOnBudget ==
    ~last_entry.raised =>
        /\ last_entry.available_chars >= MinContentSize
        /\ Len(last_entry.content) <= last_entry.available_chars =>
              /\ Len(last_entry.chunks) = 1
              /\ last_entry.chunks[1].metadata.content_size = Len(last_entry.content)
        /\ Len(last_entry.content) > last_entry.available_chars =>
              \A k \in 1..Len(last_entry.chunks) :
                  last_entry.chunks[k].metadata.content_size >= 1

\* C9 witness: an entry of at least 100 characters yields a chunk whose segment is
\* shorter than 100.
C9_Witness ==
    /\ ~last_entry.raised
    /\ Len(last_entry.content) >= MinContentSize
    /\ \E k \in 1..Len(last_entry.chunks) :
          last_entry.chunks[k].metadata.content_size < MinContentSize

\* C10: the available_chars handed to the splitter is at least 100 for every
\* entry and configuration.
C10_BudgetAtLeastFloor ==
    ~last_entry.raised => last_entry.available_chars >= MinContentSize

\* C10 witness: chunk_size is below 100 and the background built for the entry is
\* longer than the whole chunk_size.
C10_Witness ==
    /\ ~last_entry.raised
    /\ chunk_size < MinContentSize
    /\ Len(last_entry.built_background) > chunk_size
    /\ last_entry.available_chars = MinContentSize

\* the entry last processed met the shrink step: chunk_size - len(background) was
\* below 100 with a non-empty background
ShrinkCase ==
    /\ ~last_entry.raised
    /\ last_entry.built_background # <<>>
    /\ chunk_size - Len(last_entry.built_background) < MinContentSize

\* the two labels and the truncation marker
FullOverhead == OpenLabelLen + CloseLabelLen + MarkerLen

\* C11 as stated: when chunk_size - len(background) is below 100, the background
\* is non-empty and chunk_size - 100 exceeds the label-plus-marker overhead, the
\* background is shrunk so that chunk_size - len(background) is 100 again.
C11_Original ==
    (ShrinkCase /\ chunk_size - MinContentSize > FullOverhead) =>
        chunk_size - Len(last_entry.background) = MinContentSize

\* C12 as stated: when chunk_size - len(background) is below 100 with a non-empty
\* background and chunk_size cannot hold the labels plus the floor of 100, the
\* background is dropped, whether or not the builder had truncated it: the
\* entry's chunks hold the segment alone and their background_size is 0.
C12_Original ==
    (ShrinkCase /\ chunk_size - MinContentSize < OpenLabelLen + CloseLabelLen) =>
        /\ last_entry.background = <<>>
        /\ \A k \in 1..Len(last_entry.chunks) :
              /\ last_entry.chunks[k].metadata.background_size = 0
              /\ last_entry.chunks[k].content = last_entry.content_chunks[k]

\* C13: with max_background_size >= 1, the wrapped background the builder returns
\* and the background finally prefixed to the entry's chunks are at most
\* max_background_size + 27 (labels) + 12 (marker) characters long.
C13_BackgroundBound ==
    (~last_entry.raised /\ max_background_size >= 1) =>
        /\ Len(last_entry.built_background) <= max_background_size + FullOverhead
        /\ Len(last_entry.background) <= max_background_size + FullOverhead
        /\ \A k \in 1..Len(last_entry.chunks) :
              last_entry.chunks[k].metadata.background_size
                  <= max_background_size + FullOverhead

\* C13 witness: the builder truncated to a max_background_size smaller than the
\* marker, so the background is longer than max_background_size plus the labels,
\* and the shrink step was entered and left that background in place.
C13_Witness ==
    /\ ShrinkCase
    /\ last_entry.built_truncated
    /\ max_background_size >= 1
    /\ Len(last_entry.background) > max_background_size + OpenLabelLen + CloseLabelLen
    /\ last_entry.chunks # <<>>

\* C14: when the joined ancestor text is longer than max_background_size the text
\* between the labels is the marker followed by a suffix of the joined text of at
\* most max_background_size characters and was_truncated is true; otherwise the
\* joined text is kept whole between the labels and was_truncated is false.
C14_FrontTruncation ==
    (~last_entry.raised /\ last_entry.joined # <<>>) =>
        IF Len(last_entry.joined) > max_background_size
        THEN /\ last_entry.built_truncated
             /\ \E n \in 0..Min(max_background_size, Len(last_entry.joined)) :
                    last_entry.built_background
                        = Wrap(TruncMarker \o From(last_entry.joined, Len(last_entry.joined) - n))
        ELSE /\ ~last_entry.built_truncated
             /\ last_entry.built_background = Wrap(last_entry.joined)

\* C14 witness: a joined text of several ancestors was cut and a non-empty tail of
\* it, ending in the last ancestor's text, was kept.
C14_Witness ==
    /\ ~last_entry.raised
    /\ last_entry.built_truncated
    /\ Len(last_entry.joined) > max_background_size
    /\ contains(last_entry.joined, ParagraphSep)
    /\ Len(last_entry.built_background) > FullOverhead
    /\ Prefix(last_entry.joined, 5) # From(last_entry.joined, Len(last_entry.joined) - 5)

\* every entry of doc has the 'metadata' and 'content' keys
WellFormed(doc) ==
    \A j \in 1..Len(doc.entries) : doc.entries[j].has_metadata /\ doc.entries[j].has_content

\* the ancestor titles of entry that match no entry title of doc
MissingTitles(entry, doc) ==
    {entry.hierarchy[k] : k \in 1..Len(entry.hierarchy)} \ DocTitles(doc)

\* entry with those titles removed from its hierarchy
WithoutMissing(entry, doc) ==
    [entry EXCEPT !.hierarchy = SelectSeq(entry.hierarchy, LAMBDA t : t \in DocTitles(doc))]

\* an entry of the current document is about to be processed
Pending == pc = "entries" /\ entry_index < Len(Library[cur_file].entries)

PendingEntry == Library[cur_file].entries[entry_index + 1]

\* the pending entry names an ancestor that matches no entry title
PendingMissing ==
    /\ Pending
    /\ PendingEntry.has_metadata
    /\ MissingTitles(PendingEntry, Library[cur_file]) # {}

\* what build_hierarchical_background does for entry in the current state
BuildNow(entry) ==
    build_hierarchical_background(entry, Library[cur_file].entries, hierarchy_cache,
                                  max_background_size)

\* C15 as stated: when an ancestor title matches no entry title of the document,
\* build_hierarchical_background raises no error, caches nothing for that title
\* and returns the background of the hierarchy with that title removed.
C15_Original ==
    PendingMissing =>
        /\ ~BuildNow(PendingEntry).raised
        /\ BuildNow(PendingEntry).background
               = BuildNow(WithoutMissing(PendingEntry, Library[cur_file])).background
        /\ MissingTitles(PendingEntry, Library[cur_file])
               \cap DOMAIN BuildNow(PendingEntry).cache = {}

\* C15 amended: in a document whose entries all have the 'metadata' and 'content'
\* keys, an ancestor title that matches no entry title raises no error, adds
\* nothing to the cache, and the builder returns what it returns for the hierarchy
\* with that title removed (background, truncation flag and cache); the entry's
\* chunks are emitted and the loop goes on to the later entries.  (The scan for
\* an unmatched title reads 'metadata' of every entry, so it raises KeyError when
\* any entry of the document lacks that key.)
C15_MissingAncestorSkipped ==
    /\ (PendingMissing /\ WellFormed(Library[cur_file])) =>
          /\ ~BuildNow(PendingEntry).raised
          /\ BuildNow(PendingEntry) = BuildNow(WithoutMissing(PendingEntry, Library[cur_file]))
          /\ MissingTitles(PendingEntry, Library[cur_file])
                 \cap DOMAIN BuildNow(PendingEntry).cache = {}
    /\ (pc = "entries" /\ WellFormed(Library[cur_file])) =>
          /\ \A j \in 1..entry_index :
                MissingTitles(Library[cur_file].entries[j], Library[cur_file])
                    \cap DOMAIN hierarchy_cache = {}
          /\ entry_index > 0 => (~last_entry.raised /\ last_entry.chunks # <<>>)
          /\ Len(all_chunks) >= entry_index

\* C15 witness: an entry whose hierarchy names a missing ancestor before a
\* resolvable one was processed and carries a background, and a later entry of
\* the document was processed after it.
C15_Witness ==
    /\ pc = "entries"
    /\ WellFormed(Library[cur_file])
    /\ ~last_entry.raised
    /\ \E j \in 1..(entry_index - 1) :
          /\ MissingTitles(Library[cur_file].entries[j], Library[cur_file]) # {}
          /\ \E k \in 1..Len(all_chunks) :
                /\ all_chunks[k].metadata.full_path = Library[cur_file].entries[j].full_path
                /\ all_chunks[k].metadata.background_size > 0
    /\ TGhost \notin DOMAIN hierarchy_cache
    /\ TIntro \in DOMAIN hierarchy_cache

\* C16: the i-th chunk of an entry is background + "\n\n" + the i-th segment the
\* splitter returned when the entry's background is non-empty, and the i-th
\* segment alone when it is empty; all chunks of the entry carry the same
\* background (the one left by the shrink step).
C16_ChunkContent ==
    ~last_entry.raised =>
        /\ last_entry.content_chunks
               = split_content_with_overlap(last_entry.content, last_entry.available_chars,
                                            overlap_size)
        /\ Len(last_entry.chunks) = Len(last_entry.content_chunks)
        /\ \A k \in 1..Len(last_entry.chunks) :
              last_entry.chunks[k].content
                  = IF last_entry.background # <<>>
                    THEN last_entry.background \o ParagraphSep \o last_entry.content_chunks[k]
                    ELSE last_entry.content_chunks[k]

\* C16 witness: an entry with a non-empty background, shrunk by the allocator, was
\* cut into several segments.
C16_Witness ==
    /\ ~last_entry.raised
    /\ last_entry.background # <<>>
    /\ last_entry.background # last_entry.built_background
    /\ Len(last_entry.chunks) >= 2
    /\ last_entry.content_chunks[1] # last_entry.content_chunks[2]

\* C17: for every emitted chunk chunk_size is the length of its content,
\* background_size the length of the background prefixed to it (after shrinking or
\* dropping) and content_size the length of its segment; so chunk_size is
\* background_size + 2 + content_size with a background and content_size without.
C17_ExactCounts ==
    ~last_entry.raised =>
        \A k \in 1..Len(last_entry.chunks) :
            /\ last_entry.chunks[k].metadata.chunk_size = Len(last_entry.chunks[k].content)
            /\ last_entry.chunks[k].metadata.background_size = Len(last_entry.background)
            /\ startswith(last_entry.chunks[k].content, last_entry.background)
            /\ last_entry.chunks[k].metadata.content_size = Len(last_entry.content_chunks[k])
            /\ last_entry.chunks[k].metadata.chunk_size
                   = IF last_entry.background # <<>>
                     THEN last_entry.chunks[k].metadata.background_size + Len(ParagraphSep)
                              + last_entry.chunks[k].metadata.content_size
                     ELSE last_entry.chunks[k].metadata.content_size

\* C17 witness: the allocator changed the length of the background the builder
\* returned (it shrank or dropped it) and the entry's chunks were emitted.
C17_Witness ==
    /\ ShrinkCase
    /\ Len(last_entry.background) # Len(last_entry.built_background)
    /\ last_entry.chunks # <<>>
    /\ last_entry.chunks[1].metadata.chunk_size > chunk_size

RECURSIVE DocChunks(_, _, _, _, _)
\* lines 295-314 as a function: the chunks process_json_file collects for doc from
\* entry i (0-based) on, under the configuration of the run
DocChunks(doc, i, cache, counter, chunks) ==
    IF i >= Len(doc.entries) THEN [raised |-> FALSE, chunks |-> chunks]
    ELSE IF ~doc.entries[i + 1].has_content THEN [raised |-> TRUE, chunks |-> <<>>]
    ELSE LET r == create_chunks_from_entry(doc.entries[i + 1], doc.entries, basename(doc.path),
                                           cache, counter, chunk_size, overlap_size,
                                           max_background_size)
         IN  IF r.raised THEN [raised |-> TRUE, chunks |-> <<>>]
             ELSE DocChunks(doc, i + 1, r.cache, r.counter, chunks \o r.chunks)

\* document f processed by a fresh processor, no other document before it
Alone(f) == DocChunks(Library[f], 0, EmptyCache, 0, <<>>)

\* a chunk without the counter field of its chunk_id
WithoutCounter(chunk) == [chunk EXCEPT !.metadata.chunk_id = ReadablePart(@)]

WithoutCounters(chunks) == [k \in 1..Len(chunks) |-> WithoutCounter(chunks[k])]

\* the document written last has just left process_json_file
JustWritten ==
    /\ pc = "idle"
    /\ saved # <<>>
    /\ cur_file = saved[Len(saved)].file
    /\ entry_index = Len(Library[cur_file].entries)
    /\ ~last_entry.raised

\* what the document written last yields when processed alone
WrittenAlone == Alone(saved[Len(saved)].file)

\* C18: a document that raises does not abort the run and leaves no statistics
\* record: the records are those of the documents written, in order, and a
\* document, when it is written, holds exactly the chunks (contents and metadata,
\* the counter field of chunk_id aside) it yields when processed with no document
\* before it, whatever documents failed or were written earlier.
C18_FailureIsLocal ==
    /\ Len(all_stats) = Len(saved)
    /\ \A n \in 1..Len(saved) :
          /\ all_stats[n].input_file = Library[saved[n].file].path
          /\ all_stats[n].total_chunks = Len(saved[n].chunks)
    /\ \A f \in FailedFiles :
          \A n \in 1..Len(all_stats) : all_stats[n].input_file # Library[f].path
    /\ JustWritten =>
          /\ ~WrittenAlone.raised
          /\ WithoutCounters(saved[Len(saved)].chunks) = WithoutCounters(WrittenAlone.chunks)

\* C18 witness: a document failed after it had cached an ancestor and consumed
\* chunk ids; a document processed after it, which resolves the same ancestor
\* title, was written with chunks that carry a background.
C18_Witness ==
    \E n \in {Len(saved)} : \E k, j \in 1..Len(issued) :
        /\ JustWritten
        /\ k < j
        /\ issued[k].file \in FailedFiles
        /\ issued[j].file = saved[n].file
        /\ saved[n].chunks # <<>>
        /\ saved[n].chunks[1].metadata.chunk_id = issued[j].id
        /\ \E c \in 1..Len(saved[n].chunks) : saved[n].chunks[c].metadata.background_size > 0

\* the ancestor titles named in doc that a scan resolves to a body
CacheableTitles(doc) ==
    {t \in UNION {{doc.entries[j].hierarchy[k] : k \in 1..Len(doc.entries[j].hierarchy)} :
                     j \in 1..Len(doc.entries)} :
        ScanEntries(t, doc.entries).found}

\* the cache that holds the titles of S, as any processing order of doc fills it
CacheOf(doc, S) == [t \in S |-> FirstBody(doc, t)]

\* entry's background built with cache and built without a cache agree
SameAsCacheFree(entry, doc, cache) ==
    LET cached == build_hierarchical_background(entry, doc.entries, cache, max_background_size)
        free == build_hierarchical_background(entry, doc.entries, EmptyCache, max_background_size)
    IN  /\ cached.raised = free.raised
        /\ cached.joined = free.joined
        /\ cached.background = free.background
        /\ cached.was_truncated = free.was_truncated
        /\ \A t \in DOMAIN cache : t \in DOMAIN cached.cache /\ cached.cache[t] = cache[t]

\* C21: within one document the cache is transparent.  Every cache key maps to
\* the trimmed body of the first entry of the current document with that title;
\* the background built for the entry about to be processed is the one a
\* cache-free computation builds, and the call leaves every existing cache value
\* as it was; and the same holds for the cache any processing order of the
\* document's entries could have left (each set of resolvable ancestor titles,
\* checked for every entry of the first document of a run).
C21_CacheTransparent ==
    /\ cur_file # 0 =>
          \A t \in DOMAIN hierarchy_cache :
              hierarchy_cache[t] = FirstBody(Library[cur_file], t)
    /\ (Pending /\ PendingEntry.has_metadata) =>
          SameAsCacheFree(PendingEntry, Library[cur_file], hierarchy_cache)
    /\ (Pending /\ files_done = 1 /\ entry_index = 0) =>
          \A S \in SUBSET CacheableTitles(Library[cur_file]) :
              \A j \in 1..Len(Library[cur_file].entries) :
                  Library[cur_file].entries[j].has_metadata =>
                      SameAsCacheFree(Library[cur_file].entries[j], Library[cur_file],
                                      CacheOf(Library[cur_file], S))

\* C21 witness: in a document with two entries of one title and different bodies,
\* an entry was processed whose ancestors were resolved partly from the cache and
\* partly by a scan that wrote the cache.
C21_Witness ==
    /\ pc = "entries"
    /\ entry_index > 0
    /\ ~last_entry.raised
    /\ contains(last_entry.joined, ParagraphSep)
    /\ Cardinality(DOMAIN hierarchy_cache) >= 2
    /\ \E i, j \in 1..Len(Library[cur_file].entries) :
          /\ i < j
          /\ j <= entry_index
          /\ Library[cur_file].entries[i].title = Library[cur_file].entries[j].title
          /\ Library[cur_file].entries[i].title \in DOMAIN hierarchy_cache
          /\ strip(Library[cur_file].entries[i].content) # strip(Library[cur_file].entries[j].content)

\* an entry of the current document has just been processed without error
Processed == pc = "entries" /\ entry_index > 0 /\ ~last_entry.raised

ProcessedEntry == Library[cur_file].entries[entry_index]

IsWrapped(background) == startswith(background, OpenLabel) /\ endswith(background, CloseLabel)

EmptyOrWrapped(background) == background = <<>> \/ IsWrapped(background)

\* the ancestor titles of entry that resolve to an entry of doc, in hierarchy order
ResolvedTitles(entry, doc) ==
    SelectSeq(entry.hierarchy, LAMBDA t : ScanEntries(t, doc.entries).found)

\* the resolved ancestors of entry contribute no text: there is none, or there is
\* one and its trimmed body is empty
NoAncestorText(entry, doc) ==
    \/ ResolvedTitles(entry, doc) = <<>>
    \/ /\ Len(ResolvedTitles(entry, doc)) = 1
       /\ FirstBody(doc, ResolvedTitles(entry, doc)[1]) = <<>>

\* C22 as stated: the background returned by the builder and the one left by the
\* allocator are each empty or wrapped in the two labels; the built background is
\* empty when no ancestor resolves, and non-empty and wrapped when at least one
\* ancestor resolves.
C22_Original ==
    Processed =>
        /\ EmptyOrWrapped(last_entry.built_background)
        /\ EmptyOrWrapped(last_entry.background)
        /\ ResolvedTitles(ProcessedEntry, Library[cur_file]) = <<>>
              => last_entry.built_background = <<>>
        /\ ResolvedTitles(ProcessedEntry, Library[cur_file]) # <<>>
              => (last_entry.built_background # <<>> /\ IsWrapped(last_entry.built_background))

\* the hierarchies of at most two ancestors over the titles of doc and a title
\* that no entry has
ShortHierarchies(doc) ==
    LET titles == DocTitles(doc) \cup {TGhost}
    IN  {<<>>} \cup {<<t>> : t \in titles} \cup {<<t, u>> : t \in titles, u \in titles}

\* the builder's and the allocator's background for entry are empty or wrapped,
\* and the built one is empty exactly when the ancestors contribute no text
TwoStates(entry, doc, cache) ==
    LET b == build_hierarchical_background(entry, doc.entries, cache, max_background_size)
    IN  ~b.raised =>
            /\ EmptyOrWrapped(b.background)
            /\ EmptyOrWrapped(Allocate(b.background, b.was_truncated, chunk_size).background)
            /\ (b.background = <<>>) = NoAncestorText(entry, doc)

\* C22: the background returned by the builder and the one left by the allocator
\* are each the empty string or a string that starts with the open label and
\* ends with the close label.  The built background is empty exactly when the
\* resolved ancestors contribute no text: none resolves, or one resolves and its
\* trimmed body is empty; otherwise it is non-empty and wrapped.  Holds for the
\* entry just processed and, when the first document of a run is opened, for its
\* first entry under every hierarchy of at most two ancestors.
C22_TwoStates ==
    /\ Processed =>
          /\ EmptyOrWrapped(last_entry.built_background)
          /\ EmptyOrWrapped(last_entry.background)
          /\ (last_entry.built_background = <<>>)
                = NoAncestorText(ProcessedEntry, Library[cur_file])
    /\ (Pending /\ files_done = 1 /\ entry_index = 0 /\ PendingEntry.has_metadata) =>
          \A h \in ShortHierarchies(Library[cur_file]) :
              TwoStates([PendingEntry EXCEPT !.hierarchy = h], Library[cur_file],
                        hierarchy_cache)

\* C22 witness: an entry was processed whose only resolved ancestor has a body of
\* whitespace alone, and its background is empty.
C22_Witness ==
    /\ Processed
    /\ Len(ResolvedTitles(ProcessedEntry, Library[cur_file])) = 1
    /\ last_entry.built_background = <<>>
    /\ last_entry.background = <<>>
    /\ last_entry.chunks # <<>>

\* the shrink step of lines 211-231 was entered for the entry just processed
ShrinkEntered == ShrinkCase /\ chunk_size - MinContentSize > 0

\* C23 as stated: whenever the shrink step leaves a non-empty background, the
\* text between the labels is the truncation marker followed by a suffix of the
\* joined ancestor text, whether or not the builder had truncated the background.
C23_Original ==
    (ShrinkEntered /\ last_entry.background # <<>>) =>
        \E n \in 0..Len(last_entry.joined) :
            last_entry.background
                = Wrap(TruncMarker \o From(last_entry.joined, Len(last_entry.joined) - n))

DigitValue(c) == CHOOSE d \in 0..9 : DigitChars[d + 1] = c

RECURSIVE ParseDigits(_)
ParseDigits(digits) ==
    IF digits = <<>> THEN 0
    ELSE 10 * ParseDigits(SubSeq(digits, 1, Len(digits) - 1)) + DigitValue(digits[Len(digits)])

\* the counter value embedded in a chunk id: the digits between the prefix and
\* the next underscore
CounterOf(id) ==
    LET rest == From(id, Len(ChunkPrefix))
    IN  ParseDigits(Prefix(rest, MinOf({k \in 1..Len(rest) : rest[k] = "_"}) - 1))

CountersIncrease(chunks) ==
    \A k \in 1..(Len(chunks) - 1) :
        CounterOf(chunks[k].metadata.chunk_id) < CounterOf(chunks[k + 1].metadata.chunk_id)

\* the generation records of the chunks collected for the current document
IssuedNow == SubSeq(issued, Len(issued) - Len(all_chunks) + 1, Len(issued))

\* record b follows record a in entry order and, within an entry, segment order
Follows(a, b) ==
    \/ a.entry = b.entry /\ b.index = a.index + 1
    \/ a.entry < b.entry /\ b.index = 0

\* C24: the chunks collected for a document are in entry input order and, within
\* an entry, in segment order: they are the chunks generated for the document, in
\* the order of generation, entry after entry and segment after segment, the
\* chunks of the entry processed last at the end, each ending in its segment.
\* The counter values embedded in the chunk ids strictly increase along every
\* generated sequence and every document written, and the first chunk of a
\* document written carries a larger counter than every chunk written before.
C24_OrderedChunks ==
    /\ pc = "entries" =>
          /\ Len(all_chunks) <= Len(issued)
          /\ \A k \in 1..Len(all_chunks) :
                /\ all_chunks[k].metadata.chunk_id = IssuedNow[k].id
                /\ IssuedNow[k].file = cur_file
                /\ all_chunks[k].metadata.full_path
                      = Library[cur_file].entries[IssuedNow[k].entry + 1].full_path
          /\ \A k \in 1..(Len(all_chunks) - 1) : Follows(IssuedNow[k], IssuedNow[k + 1])
          /\ all_chunks # <<>> => IssuedNow[1].index = 0
    /\ Processed =>
          /\ Tail_n(all_chunks, Len(last_entry.chunks)) = last_entry.chunks
          /\ \A i \in 1..Len(last_entry.chunks) :
                endswith(last_entry.chunks[i].content, last_entry.content_chunks[i])
    /\ \A k \in 1..(Len(issued) - 1) : CounterOf(issued[k].id) < CounterOf(issued[k + 1].id)
    /\ JustWritten =>
          /\ CountersIncrease(saved[Len(saved)].chunks)
          /\ \A n \in 1..(Len(saved) - 1) :
                (saved[n].chunks # <<>> /\ saved[Len(saved)].chunks # <<>>) =>
                    CounterOf(saved[n].chunks[Len(saved[n].chunks)].metadata.chunk_id)
                        < CounterOf(saved[Len(saved)].chunks[1].metadata.chunk_id)

\* C24 witness: a second document was written after a first; the second holds
\* chunks of several entries, one of them split into several segments.
C24_Witness ==
    /\ JustWritten
    /\ Len(saved) >= 2
    /\ saved[1].chunks # <<>>
    /\ \E i, j \in 1..Len(saved[Len(saved)].chunks) :
          /\ i + 1 < j
          /\ ReadablePart(saved[Len(saved)].chunks[i].metadata.chunk_id)
                # ReadablePart(saved[Len(saved)].chunks[j].metadata.chunk_id)
          /\ saved[Len(saved)].chunks[i].metadata.full_path
                = saved[Len(saved)].chunks[i + 1].metadata.full_path
          /\ saved[Len(saved)].chunks[i].metadata.full_path
                # saved[Len(saved)].chunks[j].metadata.full_path

RECURSIVE LoopWindows(_, _, _, _, _)
\* lines 127-180: the windows content[start:end] the loop extracts, before trimming
LoopWindows(content, available_chars, overlap, start, windows) ==
    IF ~(start < Len(content)) THEN windows
    ELSE LET end == WindowEnd(content, available_chars, start)
             out == Append(windows, Slice(content, start, end))
         IN  IF end >= Len(content) THEN out
             ELSE LoopWindows(content, available_chars, overlap,
                              NextStart(start, end, overlap), out)

\* the windows of the entry just processed, trimmed
ProcessedWindows ==
    LET w == LoopWindows(last_entry.content, last_entry.available_chars, overlap_size, 0, <<>>)
    IN  [k \in 1..Len(w) |-> strip(w[k])]

\* the content of the entry just processed went through the loop of the splitter
ProcessedLong == Len(last_entry.content) > last_entry.available_chars

\* C25: a window of the splitter's loop that is empty after trimming is dropped
\* and consumes neither a segment index nor a counter value.  The segments of an
\* entry whose content is longer than available_chars are its trimmed windows
\* that are not empty, in order; every entry that yields n chunks has one chunk
\* per segment, the i-th chunk id ends in the index i - 1 and carries the counter
\* value c - n + i, where c is the counter after the entry, and the n ids
\* generated last are those of this entry.
C25_DroppedWindows ==
    Processed =>
        /\ ProcessedLong =>
              last_entry.content_chunks = SelectSeq(ProcessedWindows, LAMBDA w : w # <<>>)
        /\ Len(last_entry.chunks) = Len(last_entry.content_chunks)
        /\ Len(last_entry.chunks) <= Len(all_chunks)
        /\ \A i \in 1..Len(last_entry.chunks) :
              /\ endswith(last_entry.chunks[i].metadata.chunk_id, <<"_">> \o Digits(i - 1))
              /\ last_entry.chunks[i].metadata.chunk_id
                    = FormatChunkId(global_chunk_counter - Len(last_entry.chunks) + i,
                                    basename(Library[cur_file].path), last_entry.title, i - 1)
              /\ CounterOf(last_entry.chunks[i].metadata.chunk_id)
                    = global_chunk_counter - Len(last_entry.chunks) + i
              /\ issued[Len(issued) - Len(last_entry.chunks) + i].id
                    = last_entry.chunks[i].metadata.chunk_id
              /\ issued[Len(issued) - Len(last_entry.chunks) + i].entry = entry_index - 1
        /\ Len(all_chunks) > Len(last_entry.chunks) =>
              issued[Len(issued) - Len(last_entry.chunks)].entry < entry_index - 1

\* C25 witness: the loop extracted windows of whitespace alone between windows
\* with text; the entry has fewer chunks than windows, and at least two.
C25_Witness ==
    /\ Processed
    /\ ProcessedLong
    /\ Len(last_entry.chunks) >= 2
    /\ Len(ProcessedWindows) > Len(last_entry.chunks)
    /\ \E k \in 2..(Len(ProcessedWindows) - 1) :
          /\ ProcessedWindows[k] = <<>>
          /\ ProcessedWindows[k - 1] # <<>>
          /\ ProcessedWindows[Len(ProcessedWindows)] # <<>>

\* C28 as stated: when the shrink step is entered (chunk_size - len(background)
\* below 100, background non-empty), the background it leaves is never longer
\* than the background it started from.
C28_Original ==
    ShrinkEntered => Len(last_entry.background) <= Len(last_entry.built_background)

\* the budget of the entry just processed is feasible: the built background
\* leaves at least the floor, so nothing is shrunk or clamped
Feasible ==
    /\ Processed
    /\ chunk_size - Len(last_entry.built_background) >= MinContentSize

\* C29 as stated: for an entry with a feasible budget, every chunk has a total
\* length (the chunk_size metadata: background, separator and segment) no greater
\* than the configured chunk_size.
C29_Original ==
    Feasible =>
        \A i \in 1..Len(last_entry.chunks) :
            /\ last_entry.chunks[i].metadata.chunk_size = Len(last_entry.chunks[i].content)
            /\ last_entry.chunks[i].metadata.chunk_size <= chunk_size

RECURSIVE FreshRun(_, _, _)
\* a fresh processor with the configuration of the run processes the documents
\* files, none of which raises, in order: the chunk sequences it writes
FreshRun(files, counter, written) ==
    IF files = <<>> THEN written
    ELSE LET chunks == DocChunks(Library[Head(files)], 0, EmptyCache, counter, <<>>).chunks
         IN  FreshRun(Tail(files), counter + Len(chunks), Append(written, chunks))

\* the chunks the document written last yields from a processor whose counter
\* has the value it had when the document was opened
WrittenAgain ==
    DocChunks(Library[cur_file], 0, EmptyCache,
              global_chunk_counter - Len(saved[Len(saved)].chunks), <<>>)

\* no document of the run has raised
NoFailure == Len(saved) = files_done

SplitReturned == pc = "s_done"

LongPath == Len(s_content) > s_avail

\* C4 as stated: the splitter returns a non-empty list and no segment of it is
\* empty or whitespace-only.
C4_Original ==
    SplitReturned =>
        /\ s_chunks # <<>>
        /\ \A k \in 1..Len(s_chunks) : strip(s_chunks[k]) # <<>>

\* C5 as stated: content that fits the budget comes back as one segment equal to
\* the trimmed content.
C5_Original ==
    (SplitReturned /\ ~LongPath) => s_chunks = <<strip(s_content)>>

\* C5 amended: content that fits the budget comes back as exactly one segment,
\* equal to the content unchanged (its surrounding whitespace is kept).
C5_ShortUnchanged ==
    (SplitReturned /\ ~LongPath) => s_chunks = <<s_content>>

\* C5 witness: a content with surrounding whitespace that fits the budget was returned.
C5_Witness ==
    /\ SplitReturned
    /\ ~LongPath
    /\ strip(s_content) # s_content
    /\ strip(s_content) # <<>>

\* seg[:-n] for n > 0, seg for n = 0
DropLast(seg, n) == SubSeq(seg, 1, Len(seg) - n)

RECURSIVE Reassemble(_, _)
\* the segments joined after the trailing overlap characters of each non-final one are removed
Reassemble(segs, overlap) ==
    IF segs = <<>> THEN <<>>
    ELSE IF Len(segs) = 1 THEN segs[1]
    ELSE DropLast(segs[1], overlap) \o Reassemble(Tail(segs), overlap)

NoWhitespace(text) == SelectSeq(text, LAMBDA c : ~isspace(c))

\* C6 as stated: for content longer than the budget, the segments joined after
\* removing the trailing overlap_size characters of each non-final segment give
\* the content back, up to whitespace.
C6_Original ==
    (SplitReturned /\ LongPath) =>
        NoWhitespace(Reassemble(s_chunks, overlap_size)) = NoWhitespace(s_content)

RECURSIVE JoinWindows(_, _, _)
\* the windows from the k-th on, each non-final one cut where the next one starts
JoinWindows(content, windows, k) ==
    IF k > Len(windows) THEN <<>>
    ELSE IF k = Len(windows) THEN Slice(content, windows[k][1], windows[k][2])
    ELSE Slice(content, windows[k][1], windows[k + 1][1]) \o JoinWindows(content, windows, k + 1)

RECURSIVE TrimmedWindows(_, _, _)
TrimmedWindows(content, windows, k) ==
    IF k > Len(windows) THEN <<>>
    ELSE (IF strip(Slice(content, windows[k][1], windows[k][2])) = <<>> THEN <<>>
          ELSE <<strip(Slice(content, windows[k][1], windows[k][2]))>>)
         \o TrimmedWindows(content, windows, k + 1)

\* C6 amended: for content longer than the budget, the windows content[start:end]
\* the splitter extracts cover the content without a gap: the first starts at 0,
\* each next one starts after the previous start, at or before the previous end and
\* at most overlap_size before it, and the last one reaches the end of the content;
\* so the windows joined, each non-final one cut where the next one starts, are the
\* content exactly.  The segments returned are the windows trimmed, whitespace-only
\* windows left out.
C6_WindowsCover ==
    (pc \in {"s_loop", "s_done"} /\ LongPath) =>
        /\ s_windows # <<>> => s_windows[1][1] = 0
        /\ \A k \in 1..(Len(s_windows) - 1) :
              /\ s_windows[k][1] < s_windows[k + 1][1]
              /\ s_windows[k + 1][1] <= s_windows[k][2]
              /\ s_windows[k][2] - s_windows[k + 1][1] <= overlap_size
        /\ SplitReturned =>
              /\ s_windows # <<>>
              /\ s_windows[Len(s_windows)][2] >= Len(s_content)
              /\ JoinWindows(s_content, s_windows, 1) = s_content
        /\ s_chunks = TrimmedWindows(s_content, s_windows, 1)

\* C6 witness: a content was cut into several windows with an overlap smaller than
\* the budget, and removing overlap_size characters from the segments loses or
\* repeats a character.
C6_Witness ==
    /\ SplitReturned
    /\ LongPath
    /\ Len(s_windows) >= 2
    /\ overlap_size > 0
    /\ overlap_size < s_avail
    /\ NoWhitespace(Reassemble(s_chunks, overlap_size)) # NoWhitespace(s_content)

\* C7: the splitter terminates for every content, budget >= 1 and overlap >= 0:
\* start is larger at every loop iteration than at the one before, so the number
\* of iterations run never exceeds start while the loop goes on, start stays below
\* len(content), and at most len(content) iterations run in all.
C7_ForwardProgress ==
    /\ (pc = "s_loop" /\ s_iters > 0) => s_prev_start < s_start
    /\ pc = "s_loop" => (s_iters <= s_start /\ s_start < Len(s_content))
    /\ s_iters <= Len(s_content)

\* C7 witness: with an overlap at least as large as the budget the loop ran several
\* iterations and returned.
C7_Witness ==
    /\ SplitReturned
    /\ overlap_size >= s_avail
    /\ s_iters >= 3

\* where the claim puts the cut: the highest-priority boundary that exists in its window
ClaimedCut(content, start, end) ==
    LET sentence == {i \in SearchRange(start, end, SentenceWindow) :
                        At(content, i) \in SentenceEnd /\ isspace(At(content, i + 1))}
        paragraph == {i \in SearchRange(start, end - 1, ParagraphWindow - 1) :
                         Slice(content, i, i + 2) = ParagraphSep}
        line == {i \in SearchRange(start, end, LineWindow) : At(content, i) = "\n"}
        word == {i \in SearchRange(start, end, WordWindow) : isspace(At(content, i))}
    IN  IF sentence # {} THEN MaxOf(sentence) + 1
        ELSE IF paragraph # {} THEN MaxOf(paragraph) + 2
        ELSE IF line # {} THEN MaxOf(line) + 1
        ELSE IF word # {} THEN MaxOf(word) + 1
        ELSE end

\* C8 as stated: every cut whose tentative end lies before the end of the content
\* is made after the nearest sentence end in the window if there is one, otherwise
\* after the nearest paragraph break, otherwise after the nearest newline, otherwise
\* after the nearest whitespace, otherwise at the tentative end.
C8_Original ==
    \A k \in 1..Len(s_windows) :
        s_windows[k][1] + s_avail < Len(s_content) =>
            s_windows[k][2] = ClaimedCut(s_content, s_windows[k][1], s_windows[k][1] + s_avail)

\* the splitter has returned from the run on the 6000-character entry
ScenarioReturned == SplitReturned /\ Len(s_content) = Scenario.length

\* where the first sentence ends: just after "done."
DoneEnd == Scenario.length - Len(ScenarioTail)

ScenarioCut(content) ==
    LET end == Scenario.chunk_size
        line == {i \in (end - LineWindow + 1)..(end - 1) : At(content, i) = "\n"}
        word == {i \in (end - WordWindow + 1)..(end - 1) : isspace(At(content, i))}
    IN  IF line # {} THEN MaxOf(line) + 1
        ELSE IF word # {} THEN MaxOf(word) + 1
        ELSE end

C26_SegmentBound ==
    \A k \in 1..Len(s_chunks) : Len(s_chunks[k]) <= s_avail

\* C26 witness: the splitter returned from a run in which one window spanned more
\* than available_chars characters and gave a segment, and another segment has
\* exactly available_chars characters.
C26_Witness ==
    /\ SplitReturned
    /\ LongPath
    /\ \E k \in 1..Len(s_windows) :
          /\ s_windows[k][2] - s_windows[k][1] > s_avail
          /\ strip(Slice(s_content, s_windows[k][1], s_windows[k][2])) # <<>>
    /\ \E k \in 1..Len(s_chunks) : Len(s_chunks[k]) = s_avail

\* C27 as stated: the cut chosen by a boundary rule never lies beyond the
\* tentative end start + available_chars, so every window extracted spans at most
\* available_chars characters before trimming.
C27_Original ==
    \A k \in 1..Len(s_windows) :
        /\ s_windows[k][2] <= s_windows[k][1] + s_avail
        /\ Len(Slice(s_content, s_windows[k][1], s_windows[k][2])) <= s_avail

(***************************************************************************)
(* Properties of add_chunks (specification DbSpec)                         *)
(***************************************************************************)
\* the last call ran with force_recompute false and returned without raising
QuietCall(c) == c.called /\ ~c.force_recompute /\ ~c.raised

\* C20 as stated: with force_recompute false add_chunks hands to the collection
\* only ids that are not stored yet; and after a successful call a second call
\* with the same chunks hands nothing to the collection and leaves the stored
\* ids as they were.
C20_Original ==
    /\ (db_last.called /\ ~db_last.force_recompute) =>
          \A k \in 1..Len(db_last.handed) : db_last.handed[k] \notin db_last.before
    /\ (QuietCall(db_prev) /\ QuietCall(db_last) /\ db_last.chunks = db_prev.chunks) =>
          /\ db_last.handed = <<>>
          /\ db_last.after = db_last.before

====
